---- MODULE Spec2Model ----
(***************************************************************************)
(* Model of src/main.py: the current-affairs scraper.  One run of         *)
(* CurrentAffairsScraper.main walks the listing pages, filters the URLs   *)
(* against the MongoDB log of processed URLs, extracts and translates     *)
(* each article, and, when at least three articles were translated,       *)
(* inserts one digest row, sends one notification and logs the URLs as    *)
(* sent.  The MongoDB log and the news table outlive a run; everything    *)
(* else is rebuilt by the next run.                                       *)
(***************************************************************************)
EXTENDS Integers, Sequences, FiniteSets, TLC

VARIABLES
    pc,               \* position of main (and of the method it is in)
    outcome,          \* the branch of main the run ended in (its log line)
    connection,       \* self.connection: "open" or "closed"
    collection,       \* self.mongodb_collection: "handle" or "None"
    store,            \* the scraped_urls collection: the documents in it
    tbl_news,         \* the rows the run committed to tbl_news
    page_number,      \* main: page_number
    attempt,          \* get_article_urls: attempt (0-based)
    dlog,             \* get_article_urls: fetches and sleeps of the current call
    listing,          \* get_article_urls: what the current call parsed and looked up
    article_urls,     \* main: article_urls, the value get_article_urls returned
    all_urls,         \* main: all_urls
    index,            \* extract_content: index (1-based)
    page,             \* extract_content: what the fetch of the current URL gave
    step,             \* extract_content: how the current iteration ended
    original_title,   \* extract_content: original_title
    original_paragraph, \* extract_content: original_paragraph
    gujarati_title,   \* extract_content: gujarati_title
    articles_data,    \* extract_content: articles_data
    paced,            \* seconds of time.sleep(1) in the current run: [pages, articles]
    tr,               \* safe_translate: the current call (text, attempt, provider, log, result)
                      \* log: the providers called and the sleeps; slept: the seconds slept
    news_description, \* main: news_description, the digest handed to insert_news
    inserted,         \* calls of insert_news of the run, with what they returned
    notified,         \* calls of send_firebase_notification of the run
    recorded,         \* calls of log_url_to_mongodb of the run
    raw,              \* clean_text on its own: the text it is first called with
    cleaned           \* clean_text on its own: what its successive calls returned

vars == <<pc, outcome, connection, collection, store, tbl_news, page_number,
          attempt, dlog, listing, article_urls, all_urls, index, page, step,
          original_title, original_paragraph, gujarati_title, articles_data,
          paced, tr, news_description, inserted, notified, recorded,
          raw, cleaned>>

----------------------------------------------------------------------------
(* Bounds of the model *)

\* Most headings one listing page carries.
MaxHeadings == 2
\* Most URLs all the listing pages of one run yield together.
MaxUrls == 4
\* Longest text clean_text is called with on its own.
MaxText == 5

(* Constants of the program *)

\* One listing page fewer.
max_pages_3 == 4 - 1
\* One listing page more.
max_pages_5 == 4 + 1

max_pages == 4
\* One attempt fewer.
max_retries_2 == 3 - 1

max_retries == 3
page_retry_delay == 3
\* One pass fewer.
translation_retries_2 == 3 - 1
translation_retries == 3
retry_delay == 1
cat_id == 1
min_articles == 3
\* time.sleep(1) of main, after every listing page.
page_sleep == 1
\* Twice the pause.
article_sleep_2 == 1 + 1
\* time.sleep(1) of extract_content, after a record was appended.
article_sleep == 1

\* The values cursor.lastrowid can take.
NewsIds == {2}
\* Python's None where a number is expected.
None == 0

\* The article URLs the site can link to.
URLS == {"u1", "u2"}
\* A listing heading <h1 id="list"> without an <a> inside.
NoAnchor == "h1"
Headings == URLS \cup {NoAnchor}

\* Characters re.sub's \s matches.
Whitespace == {" ", "\n", "\t"}

----------------------------------------------------------------------------
(* Sequences *)

RECURSIVE SelectIdx(_, _, _)
\* The elements s[i] with keep[i], in order.
SelectIdx(s, keep, i) ==
    IF i > Len(s) THEN <<>>
    ELSE (IF keep[i] THEN <<s[i]>> ELSE <<>>) \o SelectIdx(s, keep, i + 1)

SeqsUpTo(S, n) == UNION {[1..k -> S] : k \in 0..n}

----------------------------------------------------------------------------
(* clean_text: re.sub(r'\s+', ' ', text).strip().  A text is a sequence of *)
(* characters.                                                             *)

RECURSIVE Collapse(_)
\* re.sub(r'\s+', ' ', text): every maximal run of whitespace becomes one space.
Collapse(text) ==
    IF text = <<>> THEN <<>>
    ELSE IF Head(text) \in Whitespace
         THEN IF Len(text) > 1 /\ text[2] \in Whitespace
              THEN Collapse(Tail(text))
              ELSE <<" ">> \o Collapse(Tail(text))
         ELSE <<Head(text)>> \o Collapse(Tail(text))

RECURSIVE LStrip(_)
LStrip(text) ==
    IF text # <<>> /\ Head(text) \in Whitespace THEN LStrip(Tail(text)) ELSE text

RECURSIVE RStrip(_)
RStrip(text) ==
    IF text # <<>> /\ text[Len(text)] \in Whitespace
    THEN RStrip(SubSeq(text, 1, Len(text) - 1))
    ELSE text

\* str.strip()
Strip(text) == RStrip(LStrip(text))

\* The runs collapsed, the ends left as they are.
clean_text_nostrip(text) == Collapse(text)

clean_text(text) == Strip(Collapse(text))

\* The text of the title element and of the lead paragraph of the article at u.
\* The texts clean_text is called with on its own: a letter and the
\* whitespace characters, in every arrangement up to MaxText characters.
Chars == Whitespace \cup {"a"}
Texts == SeqsUpTo(Chars, MaxText)

RawTitle(u) == <<"\n", " ", u, " ", "\t", "t", "\n">>
RawParagraph(u) == <<u, "\n", "\n", "p", " ">>

----------------------------------------------------------------------------
(* The MongoDB log: log_url_to_mongodb and is_url_scraped *)

\* A document of the collection, without its timestamp.
Document(url, status) == [url |-> url, status |-> status]

\* Only the entries with status scraped looked for.
HasEntry_scraped(docs, url) == \E d \in docs : d.url = url /\ d.status = "scraped"

\* Only the entries with status sent looked for.
HasEntry_sent(docs, url) == \E d \in docs : d.url = url /\ d.status = "sent"

\* collection.find_one({"url": url}) is not None
HasEntry(docs, url) == \E d \in docs : d.url = url

\* A lookup that raised answered as if the URL had an entry.
is_url_scraped_closed(coll, docs, url, raises) ==
    IF coll # "None"
    THEN IF raises THEN TRUE ELSE HasEntry(docs, url)
    ELSE FALSE

\* is_url_scraped(collection, url); raises says whether find_one raised.
is_url_scraped(coll, docs, url, raises) ==
    IF coll # "None"
    THEN IF raises THEN FALSE ELSE HasEntry(docs, url)
    ELSE FALSE

\* The entry never inserted.
log_url_to_mongodb_noop(coll, docs, url, status, raises) == docs

\* The collection after log_url_to_mongodb(collection, url, status); raises
\* says whether insert_one raised (the exception is logged and swallowed).
log_url_to_mongodb(coll, docs, url, status, raises) ==
    IF coll # "None" /\ ~raises THEN docs \cup {Document(url, status)} ELSE docs

\* The calls of log_url_to_mongodb with the given status, in order.
CallsWith(calls, status) == SelectSeq(calls, LAMBDA c : c.status = status)

UrlsOf(calls) == [k \in 1..Len(calls) |-> calls[k].url]

\* The collection after log_url_to_mongodb(collection, url, status) was
\* called for every url of urls, raises[k] telling whether the k-th raised.
log_urls_to_mongodb(coll, docs, urls, status, raises) ==
    IF coll # "None"
    THEN docs \cup {Document(urls[k], status) : k \in {i \in 1..Len(urls) : ~raises[i]}}
    ELSE docs

\* The inserts that can raise: none without a collection (none is made).
InsertRaises(coll, urls) ==
    IF coll # "None" THEN [1..Len(urls) -> BOOLEAN] ELSE {[k \in 1..Len(urls) |-> FALSE]}

\* One call of log_url_to_mongodb as the run remembers it.
RecordCall(coll, url, status, raises) ==
    [url |-> url, status |-> status, written |-> (coll # "None" /\ ~raises)]

----------------------------------------------------------------------------
(* get_article_urls *)

RECURSIVE Hrefs_stop(_)
\* The collection given up at the first heading without an anchor.
Hrefs_stop(articles) ==
    IF articles = <<>> \/ Head(articles) = NoAnchor THEN <<>>
    ELSE <<Head(articles)>> \o Hrefs_stop(Tail(articles))

\* [a.find('a')['href'] for a in articles if a.find('a')]
RECURSIVE Hrefs(_)
Hrefs(articles) ==
    IF articles = <<>> THEN <<>>
    ELSE (IF Head(articles) # NoAnchor THEN <<Head(articles)>> ELSE <<>>)
         \o Hrefs(Tail(articles))

\* The value get_article_urls returns for the collected urls: the URLs
\* is_url_scraped answers False for when there is a collection, all of them
\* otherwise.  raises[k] says whether the lookup of urls[k] raised.
new_urls(coll, docs, urls, raises) ==
    IF coll # "None"
    THEN SelectIdx(urls, [k \in 1..Len(urls) |->
                            ~is_url_scraped(coll, docs, urls[k], raises[k])], 1)
    ELSE urls

\* What one call of get_article_urls parsed: the headings of the page, the
\* hrefs collected from them, and which lookups raised.
NoListing == [result |-> "none", articles |-> <<>>, urls |-> <<>>, raises |-> <<>>]

\* The entries of dlog: a call of self.requests.get, a time.sleep(secs).
Get == [op |-> "get", secs |-> 0]
Sleep(secs) == [op |-> "sleep", secs |-> secs]

\* The lookups that can raise: none without a collection (none is made).
LookupRaises(coll, urls) ==
    IF coll # "None" THEN [1..Len(urls) -> BOOLEAN] ELSE {[k \in 1..Len(urls) |-> FALSE]}

----------------------------------------------------------------------------
(* safe_translate *)

Providers == <<"GoogleTranslator", "MyMemoryTranslator", "Translator">>

\* The text provider p returns for text when it does not raise: its
\* Gujarati translation.
ProviderOutput(p, text) == <<"gu">> \o text

\* The result safe_translate returns after the last pass failed.
FailureResult == <<>>

NoCall == [which |-> "none", text |-> <<>>, attempt |-> 0, provider |-> 0,
           log |-> <<>>, slept |-> 0, returned |-> FALSE, ok |-> FALSE,
           result |-> <<>>]

\* safe_translate(text) entered: first pass, first provider.
StartCall(which, text) ==
    [which |-> which, text |-> text, attempt |-> 0, provider |-> 1,
     log |-> <<>>, slept |-> 0, returned |-> FALSE, ok |-> FALSE,
     result |-> <<>>]

\* The second provider left out: after the first, the last one.
NextProvider_skip(p) == IF p < Len(Providers) THEN Len(Providers) ELSE 0

\* The provider tried after provider p raised, 0 when the pass is over.
NextProvider(p) == IF p < Len(Providers) THEN p + 1 ELSE 0

\* The call after the provider it is at returned a translation.
ProviderReturned(c) ==
    [c EXCEPT !.log = Append(@, Providers[c.provider]),
              !.returned = TRUE, !.ok = TRUE,
              !.result = ProviderOutput(c.provider, c.text)]

\* The call after the provider it is at raised: the next provider of the
\* pass, or the sleep and the next pass, or the failure return.
ProviderRaised(c) ==
    LET called == Append(c.log, Providers[c.provider]) IN
    IF NextProvider(c.provider) # 0
    THEN [c EXCEPT !.log = called, !.provider = NextProvider(c.provider)]
    ELSE IF c.attempt + 1 < translation_retries
         THEN [c EXCEPT !.log = Append(called, "sleep"),
                        !.slept = c.slept + retry_delay,
                        !.attempt = c.attempt + 1, !.provider = 1]
         ELSE [c EXCEPT !.log = Append(called, "sleep"),
                        !.slept = c.slept + retry_delay,
                        !.attempt = c.attempt + 1, !.provider = 0,
                        !.returned = TRUE, !.ok = FALSE,
                        !.result = FailureResult]

----------------------------------------------------------------------------
(* extract_content *)

NoPage == [fetched |-> FALSE, marker |-> FALSE, title |-> FALSE, content |-> FALSE]
Pages == [fetched : {TRUE}, marker : BOOLEAN, title : BOOLEAN, content : BOOLEAN]

\* The check of the lead paragraph left out.
Structure_nocontent(p) ==
    IF ~p.marker THEN "no_marker"
    ELSE IF ~p.title THEN "no_title"
    ELSE "translate"

\* How the structural checks of one iteration end: the first missing element
\* in the order the code looks for them, "translate" when none is missing.
Structure(p) ==
    IF ~p.marker THEN "no_marker"
    ELSE IF ~p.title THEN "no_title"
    ELSE IF ~p.content THEN "no_content"
    ELSE "translate"

\* The result of safe_translate used whatever its success flag.
NotSuccess_never(success) == FALSE

\* if not title_success: / if not para_success: whether the URL is skipped
\* after safe_translate returned success.
NotSuccess(success) == ~success

----------------------------------------------------------------------------
(* format_news_content and main *)

\* enumerate(articles_data) without the start: the cards numbered from 0.
format_news_content_from0(data) ==
    [k \in 1..Len(data) |->
        [number |-> k - 1,
         english |-> <<data[k][1], data[k][2]>>,
         gujarati |-> <<data[k][3], data[k][4]>>]]

\* The cards of the digest: enumerate(articles_data, 1).
format_news_content(data) ==
    [k \in 1..Len(data) |->
        [number |-> k,
         english |-> <<data[k][1], data[k][2]>>,
         gujarati |-> <<data[k][3], data[k][4]>>]]

news_title == "Current Affairs Summary in Gujarati"

\* The threshold one too low: len(articles_data) >= 2.
EnoughArticles_2(data) == data # <<>> /\ Len(data) >= min_articles - 1

\* if articles_data and len(articles_data) >= 3
EnoughArticles(data) == data # <<>> /\ Len(data) >= min_articles

\* The notification sent whatever insert_news returned.
ShouldNotify_always(success) == TRUE

\* if success: whether the notification is sent after insert_news returned.
ShouldNotify(success) == success

\* The URLs logged as sent whatever the notification call returned.
ShouldCommit_always(sent) == TRUE

\* Whether the URLs are logged as sent after the notification call returned.
ShouldCommit(sent) == sent

\* Only the URLs that gave a record (those logged as scraped) logged as sent.
SentUrls_scraped(urls) == UrlsOf(CallsWith(recorded, "scraped"))

\* for url in all_urls: the URLs logged as sent.
SentUrls(urls) == urls

NoSleeps == [pages |-> 0, articles |-> 0]

\* The URLs of a page added only when all_urls does not hold them yet.
extend_new(urls, more) == urls \o SelectSeq(more, LAMBDA u : \A k \in 1..Len(urls) : urls[k] # u)

\* if article_urls: all_urls.extend(article_urls)
extend(urls, more) == IF more # <<>> THEN urls \o more ELSE urls

\* The loop left at the first URL that gave no record.
AfterIteration_abort(i, n) == IF i < n /\ step = "processed" THEN "extract" ELSE "threshold"

\* for index, article_url in enumerate(article_urls, 1): where the loop
\* goes after iteration i of n, however the iteration ended.
AfterIteration(i, n) == IF i < n THEN "extract" ELSE "threshold"

----------------------------------------------------------------------------
(* The state a run starts in: CurrentAffairsScraper.__init__ and the locals *)
(* of main.                                                                 *)

RunStart(coll) ==
    /\ pc = "discover"
    /\ outcome = ""
    /\ tbl_news = <<>>
    /\ connection = "open"
    /\ collection = coll
    /\ page_number = 1
    /\ attempt = 0
    /\ dlog = <<>>
    /\ listing = NoListing
    /\ article_urls = <<>>
    /\ all_urls = <<>>
    /\ index = 0
    /\ page = NoPage
    /\ step = ""
    /\ original_title = <<>>
    /\ original_paragraph = <<>>
    /\ gujarati_title = <<>>
    /\ articles_data = <<>>
    /\ paced = NoSleeps
    /\ tr = NoCall
    /\ news_description = <<>>
    /\ inserted = <<>>
    /\ notified = <<>>
    /\ recorded = <<>>

Init ==
    /\ store = {}
    /\ \E coll \in {"handle", "None"} : RunStart(coll)
    /\ raw = <<>>
    /\ cleaned = <<>>

discoverVars == <<page_number, attempt, dlog, listing, article_urls, all_urls>>
extractVars == <<index, page, step, original_title, original_paragraph,
                 gujarati_title, articles_data, tr>>
persistVars == <<tbl_news, news_description, inserted, notified>>
runVars == <<connection, collection>>
unitVars == <<raw, cleaned>>

----------------------------------------------------------------------------
(* get_article_urls(page_url), one attempt per step, and the loop of main *)

InDiscover == pc = "discover" /\ page_number <= max_pages

\* self.requests.get or raise_for_status raises a RequestException.
ListingRequestFails ==
    /\ InDiscover
    /\ IF attempt < max_retries - 1
       THEN /\ attempt' = attempt + 1
            /\ dlog' = dlog \o <<Get, Sleep(page_retry_delay)>>
            /\ UNCHANGED <<pc, listing, article_urls>>
       ELSE /\ dlog' = Append(dlog, Get)
            /\ listing' = [NoListing EXCEPT !.result = "request_failed"]
            /\ article_urls' = <<>>
            /\ pc' = "page_done"
            /\ UNCHANGED attempt
    /\ UNCHANGED <<page_number, all_urls, outcome, store, paced, recorded>>
    /\ UNCHANGED <<extractVars, persistVars, runVars>>
    /\ UNCHANGED unitVars

\* Anything else raises while the page is fetched and parsed.
ListingUnexpectedError ==
    /\ InDiscover
    /\ dlog' = Append(dlog, Get)
    /\ listing' = [NoListing EXCEPT !.result = "error"]
    /\ article_urls' = <<>>
    /\ pc' = "page_done"
    /\ UNCHANGED <<page_number, attempt, all_urls, outcome, store, paced, recorded>>
    /\ UNCHANGED <<extractVars, persistVars, runVars>>
    /\ UNCHANGED unitVars

\* The page is fetched and parsed; its URLs are filtered and returned.
ListingParsed ==
    /\ InDiscover
    /\ \E articles \in SeqsUpTo(Headings, MaxHeadings) :
         LET urls == Hrefs(articles) IN
         /\ Len(all_urls) + Len(urls) <= MaxUrls
         /\ \E raises \in LookupRaises(collection, urls) :
              /\ listing' = [result |-> "parsed", articles |-> articles,
                             urls |-> urls, raises |-> raises]
              /\ article_urls' = new_urls(collection, store, urls, raises)
    /\ dlog' = Append(dlog, Get)
    /\ pc' = "page_done"
    /\ UNCHANGED <<page_number, attempt, all_urls, outcome, store, paced, recorded>>
    /\ UNCHANGED <<extractVars, persistVars, runVars>>
    /\ UNCHANGED unitVars

\* main: the rest of the while body after get_article_urls returned.
PageDone ==
    /\ pc = "page_done"
    /\ all_urls' = extend(all_urls, article_urls)
    /\ page_number' = page_number + 1
    /\ paced' = [paced EXCEPT !.pages = @ + page_sleep]
    /\ attempt' = 0
    /\ dlog' = <<>>
    /\ listing' = NoListing
    /\ article_urls' = <<>>
    /\ pc' = "discover"
    /\ UNCHANGED <<outcome, store, recorded>>
    /\ UNCHANGED <<extractVars, persistVars, runVars>>
    /\ UNCHANGED unitVars

\* main: the while loop is over; if all_urls: extract_content(all_urls).
PagesDone ==
    /\ pc = "discover"
    /\ page_number > max_pages
    /\ IF all_urls # <<>>
       THEN /\ pc' = "extract"
            /\ index' = 1
            /\ UNCHANGED outcome
       ELSE /\ pc' = "finally"
            /\ outcome' = "no_urls"
            /\ UNCHANGED index
    /\ UNCHANGED <<page, step, original_title, original_paragraph, gujarati_title,
                   articles_data, tr>>
    /\ UNCHANGED <<discoverVars, store, paced, recorded, persistVars, runVars>>
    /\ UNCHANGED unitVars

----------------------------------------------------------------------------
(* extract_content(all_urls): one iteration of the for loop *)

\* The iteration ends, with or without a record: continue.
Skip(how) ==
    /\ step' = how
    /\ pc' = "iter_end"

\* self.requests.get(article_url) (or anything up to the translation) raises.
ArticleFetchFails ==
    /\ pc = "extract"
    /\ Skip("failed")
    /\ UNCHANGED <<index, page, original_title, original_paragraph, gujarati_title,
                   articles_data, tr>>
    /\ UNCHANGED <<discoverVars, outcome, store, paced, recorded, persistVars, runVars>>
    /\ UNCHANGED unitVars

\* The page is fetched and parsed: the three elements are looked for, and
\* with all three present the title goes to safe_translate.
ArticleFetched ==
    /\ pc = "extract"
    /\ \E p \in Pages :
         /\ page' = p
         /\ IF Structure(p) = "translate"
            THEN /\ original_title' = clean_text(RawTitle(all_urls[index]))
                 /\ original_paragraph' = clean_text(RawParagraph(all_urls[index]))
                 /\ tr' = StartCall("title", clean_text(RawTitle(all_urls[index])))
                 /\ pc' = "translate"
                 /\ UNCHANGED step
            ELSE /\ Skip(Structure(p))
                 /\ UNCHANGED <<original_title, original_paragraph, tr>>
    /\ UNCHANGED <<index, gujarati_title, articles_data>>
    /\ UNCHANGED <<discoverVars, outcome, store, paced, recorded, persistVars, runVars>>
    /\ UNCHANGED unitVars

\* safe_translate: the provider the call is at raises.
ProviderRaises ==
    /\ pc = "translate"
    /\ tr' = ProviderRaised(tr)
    /\ pc' = IF tr'.returned THEN "translated" ELSE "translate"
    /\ UNCHANGED <<index, page, step, original_title, original_paragraph,
                   gujarati_title, articles_data>>
    /\ UNCHANGED <<discoverVars, outcome, store, paced, recorded, persistVars, runVars>>
    /\ UNCHANGED unitVars

\* safe_translate: the provider the call is at returns a translation.
ProviderReturns ==
    /\ pc = "translate"
    /\ tr' = ProviderReturned(tr)
    /\ pc' = "translated"
    /\ UNCHANGED <<index, page, step, original_title, original_paragraph,
                   gujarati_title, articles_data>>
    /\ UNCHANGED <<discoverVars, outcome, store, paced, recorded, persistVars, runVars>>
    /\ UNCHANGED unitVars

\* safe_translate(original_title) returned.
TitleTranslated ==
    /\ pc = "translated"
    /\ tr.which = "title"
    /\ IF NotSuccess(tr.ok)
       THEN /\ Skip("title_failed")
            /\ tr' = NoCall
            /\ UNCHANGED gujarati_title
       ELSE /\ gujarati_title' = tr.result
            /\ tr' = StartCall("para", original_paragraph)
            /\ pc' = "translate"
            /\ UNCHANGED step
    /\ UNCHANGED <<index, page, original_title, original_paragraph, articles_data>>
    /\ UNCHANGED <<discoverVars, outcome, store, paced, recorded, persistVars, runVars>>
    /\ UNCHANGED unitVars

\* safe_translate(original_paragraph) returned: the record is appended, the
\* URL logged as scraped, and the loop sleeps.
ParagraphTranslated ==
    /\ pc = "translated"
    /\ tr.which = "para"
    /\ IF NotSuccess(tr.ok)
       THEN /\ Skip("para_failed")
            /\ UNCHANGED <<articles_data, store, recorded, paced>>
       ELSE /\ articles_data' = Append(articles_data,
                   <<original_title, original_paragraph, gujarati_title, tr.result>>)
            /\ \E raises \in (IF collection # "None" THEN BOOLEAN ELSE {FALSE}) :
                 /\ store' = log_url_to_mongodb(collection, store, all_urls[index],
                                                "scraped", raises)
                 /\ recorded' = Append(recorded,
                       RecordCall(collection, all_urls[index], "scraped", raises))
            /\ paced' = [paced EXCEPT !.articles = @ + article_sleep]
            /\ Skip("processed")
    /\ tr' = NoCall
    /\ UNCHANGED <<index, page, original_title, original_paragraph, gujarati_title>>
    /\ UNCHANGED <<discoverVars, outcome, persistVars, runVars>>
    /\ UNCHANGED unitVars

\* The for loop moves on to the next URL, or extract_content returns.
NextArticle ==
    /\ pc = "iter_end"
    /\ index' = index + 1
    /\ page' = NoPage
    /\ step' = ""
    /\ original_title' = <<>>
    /\ original_paragraph' = <<>>
    /\ gujarati_title' = <<>>
    /\ tr' = NoCall
    /\ pc' = AfterIteration(index, Len(all_urls))
    /\ UNCHANGED articles_data
    /\ UNCHANGED <<discoverVars, outcome, store, paced, recorded, persistVars, runVars>>
    /\ UNCHANGED unitVars

----------------------------------------------------------------------------
(* main after extract_content returned *)

\* if articles_data and len(articles_data) >= 3: the digest is formatted.
CheckThreshold ==
    /\ pc = "threshold"
    /\ IF EnoughArticles(articles_data)
       THEN /\ news_description' = format_news_content(articles_data)
            /\ pc' = "insert"
            /\ UNCHANGED outcome
       ELSE /\ outcome' = "insufficient"
            /\ pc' = "finally"
            /\ UNCHANGED news_description
    /\ UNCHANGED <<tbl_news, inserted, notified>>
    /\ UNCHANGED <<discoverVars, extractVars, store, paced, recorded, runVars>>
    /\ UNCHANGED unitVars

\* One call insert_news(connection, cat_id, news_title, news_description, "")
\* as the run remembers it: what it was handed and how it ended.
InsertCall(success, news_id, raised) ==
    [cat |-> cat_id, title |-> news_title, body |-> news_description,
     success |-> success, news_id |-> news_id, raised |-> raised]

\* insert_news commits the row and returns (True, cursor.lastrowid).
InsertNewsSucceeds ==
    /\ pc = "insert"
    /\ \E news_id \in NewsIds :
         /\ tbl_news' = Append(tbl_news, [id |-> news_id, cat |-> cat_id,
                                          title |-> news_title,
                                          body |-> news_description])
         /\ inserted' = Append(inserted, InsertCall(TRUE, news_id, FALSE))
    /\ pc' = "inserted"
    /\ UNCHANGED <<news_description, notified, outcome>>
    /\ UNCHANGED <<discoverVars, extractVars, store, paced, recorded, runVars>>
    /\ UNCHANGED unitVars

\* insert_news returns (False, None): no connection, or a mysql error.
InsertNewsFails ==
    /\ pc = "insert"
    /\ inserted' = Append(inserted, InsertCall(FALSE, None, FALSE))
    /\ pc' = "inserted"
    /\ UNCHANGED <<tbl_news, news_description, notified, outcome>>
    /\ UNCHANGED <<discoverVars, extractVars, store, paced, recorded, runVars>>
    /\ UNCHANGED unitVars

\* if success: send_firebase_notification(news_title, news_id), which returns
\* whether the message was sent; else the failure is logged.
AfterInsert ==
    /\ pc = "inserted"
    /\ LET ret == inserted[Len(inserted)] IN
       IF ShouldNotify(ret.success)
       THEN \E sent \in BOOLEAN :
              /\ notified' = Append(notified, [title |-> news_title,
                                               post_id |-> ret.news_id,
                                               sent |-> sent])
              /\ IF ShouldCommit(sent)
                 THEN /\ pc' = "commit"
                      /\ UNCHANGED outcome
                 ELSE /\ pc' = "finally"
                      /\ outcome' = "not_notified"
       ELSE /\ pc' = "finally"
            /\ outcome' = "insert_failed"
            /\ UNCHANGED notified
    /\ UNCHANGED <<tbl_news, news_description, inserted>>
    /\ UNCHANGED <<discoverVars, extractVars, store, paced, recorded, runVars>>
    /\ UNCHANGED unitVars

\* for url in all_urls: log_url_to_mongodb(collection, url, status="sent");
\* no call raises, so the loop runs to its end.  raises[k] says whether the
\* insert of the k-th call raised.
CommitSent ==
    /\ pc = "commit"
    /\ LET urls == SentUrls(all_urls) IN
       \E raises \in InsertRaises(collection, urls) :
          /\ store' = log_urls_to_mongodb(collection, store, urls, "sent", raises)
          /\ recorded' = recorded \o
                [k \in 1..Len(urls) |-> RecordCall(collection, urls[k], "sent", raises[k])]
    /\ pc' = "finally"
    /\ outcome' = "sent"
    /\ UNCHANGED <<discoverVars, extractVars, paced, persistVars, runVars>>
    /\ UNCHANGED unitVars

\* insert_news raises something that is no mysql error: the exception leaves
\* the try block of main and is logged.
MainError ==
    /\ pc = "insert"
    /\ inserted' = Append(inserted, InsertCall(FALSE, None, TRUE))
    /\ pc' = "finally"
    /\ outcome' = "error"
    /\ UNCHANGED <<tbl_news, news_description, notified>>
    /\ UNCHANGED <<discoverVars, extractVars, store, paced, recorded, runVars>>
    /\ UNCHANGED unitVars

\* The connection left as it is.
connection_close_not(conn) == conn

\* if self.connection: self.connection.close()
connection_close(conn) == "closed"

\* finally: self.connection.close(), and the script ends: what it held in
\* memory is gone, the collection and the log lines stay.
Finally ==
    /\ pc = "finally"
    /\ connection' = connection_close(connection)
    /\ pc' = "done"
    /\ UNCHANGED outcome
    /\ tbl_news' = <<>>
    /\ page_number' = 1
    /\ attempt' = 0
    /\ dlog' = <<>>
    /\ listing' = NoListing
    /\ article_urls' = <<>>
    /\ all_urls' = <<>>
    /\ index' = 0
    /\ page' = NoPage
    /\ step' = ""
    /\ original_title' = <<>>
    /\ original_paragraph' = <<>>
    /\ gujarati_title' = <<>>
    /\ articles_data' = <<>>
    /\ paced' = NoSleeps
    /\ tr' = NoCall
    /\ news_description' = <<>>
    /\ inserted' = <<>>
    /\ notified' = <<>>
    /\ recorded' = <<>>
    /\ UNCHANGED <<collection, store>>
    /\ UNCHANGED unitVars

\* The script is started again: __init__ connects anew to both databases.
NextRun ==
    /\ pc = "done"
    /\ pc' = "discover"
    /\ connection' = "open"
    /\ \E coll \in {"handle", "None"} : collection' = coll
    /\ outcome' = ""
    /\ UNCHANGED <<store, paced, recorded>>
    /\ UNCHANGED <<discoverVars, extractVars, persistVars>>
    /\ UNCHANGED unitVars

Next ==
    \/ ListingRequestFails
    \/ ListingUnexpectedError
    \/ ListingParsed
    \/ PageDone
    \/ PagesDone
    \/ ArticleFetchFails
    \/ ArticleFetched
    \/ ProviderRaises
    \/ ProviderReturns
    \/ TitleTranslated
    \/ ParagraphTranslated
    \/ NextArticle
    \/ CheckThreshold
    \/ InsertNewsSucceeds
    \/ InsertNewsFails
    \/ MainError
    \/ AfterInsert
    \/ CommitSent
    \/ Finally
    \/ NextRun

Spec == Init /\ [][Next]_vars

\* The script is one thread that goes on as long as the calls it makes
\* return or raise: a step that can be taken is taken.
SpecLive == Init /\ [][Next]_vars /\ WF_vars(Next)

----------------------------------------------------------------------------
(* clean_text on its own: called with a text, then with what it returned *)

InitCleanText ==
    /\ store = {}
    /\ RunStart("None")
    /\ raw \in Texts
    /\ cleaned = <<>>

\* self.clean_text(text)
CleanText ==
    /\ cleaned = <<>>
    /\ cleaned' = <<clean_text(raw)>>
    /\ UNCHANGED <<raw, pc, outcome, store, paced, recorded>>
    /\ UNCHANGED <<discoverVars, extractVars, persistVars, runVars>>

\* self.clean_text(self.clean_text(text))
CleanTextAgain ==
    /\ Len(cleaned) = 1
    /\ cleaned' = Append(cleaned, clean_text(cleaned[1]))
    /\ UNCHANGED <<raw, pc, outcome, store, paced, recorded>>
    /\ UNCHANGED <<discoverVars, extractVars, persistVars, runVars>>

NextCleanText ==
    \/ CleanText
    \/ CleanTextAgain

SpecCleanText == InitCleanText /\ [][NextCleanText]_vars

----------------------------------------------------------------------------
(* What the claims speak about *)

\* main is past extract_content (or never called it).
AfterExtraction == pc \in {"threshold", "insert", "inserted", "commit", "finally"}

\* The run is over: main has reached its finally block.
RunOver == pc = "finally"

\* Every entry the run wrote is in the collection.
WrittenRemain ==
    \A k \in 1..Len(recorded) :
        recorded[k].written => Document(recorded[k].url, recorded[k].status) \in store

\* C1: when extract_content returned fewer than 3 records, the run calls
\* neither insert_news nor send_firebase_notification, logs no URL as sent,
\* and the scraped entries it wrote during extraction stay in the collection.
C1_BelowThresholdNothingSent ==
    (AfterExtraction /\ Len(articles_data) < 3) =>
        /\ inserted = <<>>
        /\ notified = <<>>
        /\ tbl_news = <<>>
        /\ CallsWith(recorded, "sent") = <<>>
        /\ pc \in {"threshold", "finally"}
        /\ WrittenRemain

\* A run that ended with exactly 2 records, both logged as scraped.
C1_Witness ==
    /\ pc = "finally"
    /\ outcome = "insufficient"
    /\ Len(articles_data) = 2
    /\ Len(recorded) = 2
    /\ \A k \in 1..2 : recorded[k].written /\ recorded[k].status = "scraped"

\* C2: when extract_content returned N >= 3 records, insert_news is called
\* exactly once in the run, and the digest it is handed has one card per
\* record, in the order of articles_data, numbered 1..N; when every URL gave
\* a record, card k is the article of the k-th URL.
C2_DigestOrderedOnce ==
    /\ Len(inserted) <= 1
    /\ (RunOver /\ Len(articles_data) >= 3) =>
        /\ Len(inserted) = 1
        /\ LET digest == inserted[1].body
               N == Len(articles_data) IN
           /\ Len(digest) = N
           /\ \A k \in 1..N :
                /\ digest[k].number = k
                /\ digest[k].english = <<articles_data[k][1], articles_data[k][2]>>
                /\ digest[k].gujarati = <<articles_data[k][3], articles_data[k][4]>>
           /\ N = Len(all_urls) =>
                \A k \in 1..N :
                    digest[k].english[1] = clean_text(RawTitle(all_urls[k]))

\* A run over with exactly 3 records about two different articles.
C2_Witness ==
    /\ pc = "finally"
    /\ Len(articles_data) = 3
    /\ Len(inserted) = 1
    /\ articles_data[1] # articles_data[2]
    /\ Len(inserted[1].body) = 3

SentLogged == \E k \in 1..Len(recorded) : recorded[k].status = "sent"

\* C3 as claimed: after insert_news succeeded and the notification failed,
\* the run still logs every URL of all_urls as sent.
C3_Claimed ==
    (RunOver /\ notified # <<>> /\ ~notified[1].sent) =>
        UrlsOf(CallsWith(recorded, "sent")) = all_urls

\* C3 as amended: after insert_news succeeded and the notification failed,
\* the inserted row stays, no URL is logged as sent and the run ends; a URL
\* is logged as sent only after the notification was sent.
C3_NotifyFailureSkipsCommit ==
    /\ (notified # <<>> /\ ~notified[1].sent) =>
         /\ inserted[1].success
         /\ Len(tbl_news) = 1
         /\ tbl_news[1].id = inserted[1].news_id
         /\ tbl_news[1].body = inserted[1].body
         /\ ~SentLogged
         /\ RunOver
    /\ SentLogged => (notified # <<>> /\ notified[1].sent)

\* A run that ended after a failed notification, the row in the table.
C3_Witness ==
    /\ pc = "finally"
    /\ outcome = "not_notified"
    /\ Len(tbl_news) = 1
    /\ ~notified[1].sent

\* C4: send_firebase_notification is called at most once in a run, only
\* after insert_news returned success in that run, and with the id it
\* returned; when insert_news fails it is not called again, no notification
\* is sent, no URL is logged as sent and the run ends.
C4_NotifyOnlyAfterInsert ==
    /\ Len(notified) <= 1
    /\ Len(inserted) <= 1
    /\ notified # <<>> =>
         /\ inserted # <<>>
         /\ inserted[1].success
         /\ notified[1].post_id = inserted[1].news_id
         /\ notified[1].title = inserted[1].title
    /\ (inserted # <<>> /\ ~inserted[1].success) =>
         /\ notified = <<>>
         /\ ~SentLogged
         /\ tbl_news = <<>>
         /\ pc \in {"inserted", "finally"}

\* A run over whose notification carried the id 2 of the row just inserted.
C4_Witness ==
    /\ pc = "finally"
    /\ Len(notified) = 1
    /\ notified[1].post_id = 2
    /\ tbl_news[1].id = 2

\* C5: a run that reaches the loop over all_urls logs the URLs of all_urls
\* as sent, one call each and in order, the URLs that gave no record
\* included; a call whose insert did not raise leaves its entry in the
\* collection, so with every insert landing each URL has its sent entry.
C5_SentForEveryUrl ==
    /\ pc = "commit" => CallsWith(recorded, "sent") = <<>>
    /\ (RunOver /\ outcome = "sent") =>
         /\ UrlsOf(CallsWith(recorded, "sent")) = all_urls
         /\ Len(all_urls) >= Len(articles_data)
    /\ (RunOver /\ outcome = "sent" /\ \A k \in 1..Len(recorded) : recorded[k].written) =>
         \A k \in 1..Len(all_urls) : Document(all_urls[k], "sent") \in store
    /\ WrittenRemain

\* A run that ended as sent with 4 URLs, one of which gave no record, and
\* every sent entry written.
C5_Witness ==
    /\ pc = "finally"
    /\ outcome = "sent"
    /\ Len(all_urls) = 4
    /\ Len(articles_data) = 3
    /\ \A k \in 1..Len(recorded) : recorded[k].written
    /\ Len(CallsWith(recorded, "sent")) = 4

\* The provider chain in the order the claims give it.
ChainABC == <<"GoogleTranslator", "MyMemoryTranslator", "Translator">>

\* The log of n passes in which all three providers raised.
FailedPasses(n) ==
    [k \in 1..(4 * n) |-> IF k % 4 = 0 THEN "sleep" ELSE ChainABC[k % 4]]

\* C6: in every call of safe_translate the log is some failed passes
\* (A, B, C, sleep) followed by a prefix of A, B, C, so within a pass each
\* provider is called at most once, in that order, and only after the ones
\* before it raised; a call that returned success stopped at the provider
\* called last, returned that provider's output, and called nothing after.
C6_FallbackOrder ==
    tr.which # "none" =>
        /\ tr.attempt \in 0..3
        /\ IF ~tr.returned
           THEN /\ tr.provider \in 1..3
                /\ tr.log = FailedPasses(tr.attempt) \o SubSeq(ChainABC, 1, tr.provider - 1)
                /\ pc = "translate"
           ELSE /\ pc # "translate"
                /\ tr.ok =>
                     /\ tr.provider \in 1..3
                     /\ tr.attempt < 3
                     /\ tr.log = FailedPasses(tr.attempt) \o SubSeq(ChainABC, 1, tr.provider)
                     /\ tr.result = ProviderOutput(tr.provider, tr.text)
                     /\ tr.result # FailureResult

\* A and B raised and C returned on the first pass: three calls, C's output.
C6_Witness ==
    /\ pc = "translated"
    /\ tr.returned /\ tr.ok
    /\ tr.log = <<"GoogleTranslator", "MyMemoryTranslator", "Translator">>
    /\ tr.result = ProviderOutput(3, tr.text)

\* C7: a call of safe_translate that returned failure returned the empty
\* string after exactly 3 passes of A, B, C, 9 provider calls in all, slept
\* retry_delay after each failed pass (so between any two passes), and
\* returned to extract_content without raising.
C7_ExhaustedPasses ==
    (tr.which # "none" /\ tr.returned /\ ~tr.ok) =>
        /\ tr.result = <<>>
        /\ tr.attempt = 3
        /\ tr.log = ChainABC \o <<"sleep">> \o ChainABC \o <<"sleep">>
                    \o ChainABC \o <<"sleep">>
        /\ Len(SelectSeq(tr.log, LAMBDA e : e # "sleep")) = 9
        /\ tr.slept = 3 * 1
        /\ pc = "translated"

\* The translation of a title returned failure after its third failed pass.
C7_Witness ==
    /\ pc = "translated"
    /\ tr.which = "title"
    /\ tr.returned /\ ~tr.ok
    /\ Len(tr.log) = 12
    /\ tr.slept = 3

Incomplete(p) == p.fetched /\ ~(p.marker /\ p.title /\ p.content)

\* C8: the iteration that fetches a page without the marker, the title or
\* the lead paragraph ends at once, with no call of safe_translate, no record
\* and no entry logged, and the loop moves on without any either.
C8_IncompletePageSkipped ==
    /\ [][(pc = "extract" /\ Incomplete(page')) =>
            /\ pc' = "iter_end"
            /\ tr' = NoCall
            /\ articles_data' = articles_data
            /\ recorded' = recorded
            /\ store' = store]_vars
    /\ [][(pc = "iter_end" /\ Incomplete(page)) =>
            /\ tr = NoCall
            /\ tr' = NoCall
            /\ articles_data' = articles_data
            /\ recorded' = recorded
            /\ store' = store]_vars

\* A page with marker and title but no lead paragraph was skipped untranslated.
C8_Witness ==
    /\ pc = "iter_end"
    /\ page.fetched /\ page.marker /\ page.title /\ ~page.content
    /\ step = "no_content"
    /\ tr = NoCall

\* The translated fields of a record are what a provider returned for its
\* English fields, and never the failure result.
Translated(rec) ==
    /\ rec[3] # <<>>
    /\ rec[4] # <<>>
    /\ \E p \in 1..3 : rec[3] = ProviderOutput(p, rec[1])
    /\ \E p \in 1..3 : rec[4] = ProviderOutput(p, rec[2])

\* C9: a record is appended only when the paragraph translation returned
\* success after the title translation did; a failed translation ends the
\* iteration with no record; so every record of articles_data, and every
\* card of an inserted digest, carries two provider outputs, never the
\* empty failure result.
C9_RecordsFullyTranslated ==
    /\ [](\A k \in 1..Len(articles_data) : Translated(articles_data[k]))
    /\ [](\A r \in 1..Len(tbl_news) : \A k \in 1..Len(tbl_news[r].body) :
              /\ tbl_news[r].body[k].gujarati[1] # <<>>
              /\ tbl_news[r].body[k].gujarati[2] # <<>>)
    /\ [][(articles_data' # articles_data /\ pc # "finally") =>
            /\ pc = "translated"
            /\ tr.which = "para" /\ tr.returned /\ tr.ok
            /\ gujarati_title # <<>>
            /\ articles_data' = Append(articles_data,
                 <<original_title, original_paragraph, gujarati_title, tr.result>>)]_vars
    /\ [][(pc = "translated" /\ ~tr.ok) =>
            /\ pc' = "iter_end"
            /\ articles_data' = articles_data]_vars

\* The title was translated, the paragraph was not: no record for the URL.
C9_Witness ==
    /\ pc = "iter_end"
    /\ step = "para_failed"
    /\ gujarati_title # <<>>
    /\ index = 1
    /\ articles_data = <<>>

RECURSIVE Unseen(_)
\* The URLs of urls, in order, that no document of the collection names.
Unseen(urls) ==
    IF urls = <<>> THEN <<>>
    ELSE (IF \E d \in store : d.url = Head(urls) THEN <<>> ELSE <<Head(urls)>>)
         \o Unseen(Tail(urls))

\* The collection is there and no lookup of the current call raised.
StoreAvailable ==
    /\ collection = "handle"
    /\ \A k \in 1..Len(listing.raises) : ~listing.raises[k]

\* C10: with the collection there and no lookup raising, get_article_urls
\* returns exactly the collected URLs no document names, in their order:
\* a URL with an entry of either status is left out wherever it stands.
C10_DiscoverFiltersSeen ==
    (pc = "page_done" /\ listing.result = "parsed" /\ StoreAvailable) =>
        /\ article_urls = Unseen(listing.urls)
        /\ \A k \in 1..Len(article_urls) :
             /\ Document(article_urls[k], "scraped") \notin store
             /\ Document(article_urls[k], "sent") \notin store

\* The page lists a URL that only has a sent entry before an unseen one:
\* only the unseen one is returned.
C10_Witness ==
    /\ pc = "page_done"
    /\ listing.result = "parsed"
    /\ StoreAvailable
    /\ Len(listing.urls) = 2
    /\ Document(listing.urls[1], "sent") \in store
    /\ Document(listing.urls[1], "scraped") \notin store
    /\ article_urls = <<listing.urls[2]>>

\* The lookup of the k-th URL the current call collected cannot be made:
\* there is no collection, or find_one raises.
Unavailable(k) == collection = "None" \/ listing.raises[k]

\* C11: a URL whose lookup cannot be made (no collection, or find_one
\* raises) is returned by get_article_urls as if it had no entry, so with
\* every lookup failing the call returns all the collected URLs, as with an
\* empty collection; without a collection no step changes the collection,
\* and a call of log_url_to_mongodb whose insert raises changes nothing and
\* returns: the record stays appended, the loop goes on, and the loop over
\* all_urls runs to its end and the run ends as sent.
C11_StoreUnavailableDegrades ==
    /\ []((pc = "page_done" /\ listing.result = "parsed") =>
            /\ \A k \in 1..Len(listing.urls) :
                 Unavailable(k) => \E j \in 1..Len(article_urls) :
                                      article_urls[j] = listing.urls[k]
            /\ (\A k \in 1..Len(listing.urls) : Unavailable(k)) =>
                 article_urls = listing.urls)
    /\ [](collection = "None" => \A k \in 1..Len(recorded) : ~recorded[k].written)
    /\ [][collection = "None" => store' = store]_vars
    /\ [][(pc = "translated" /\ Len(recorded') = Len(recorded) + 1
             /\ ~recorded'[Len(recorded')].written) =>
            /\ store' = store
            /\ Len(articles_data') = Len(articles_data) + 1
            /\ pc' = "iter_end"
            /\ step' = "processed"]_vars
    /\ [][pc = "commit" =>
            /\ pc' = "finally"
            /\ outcome' = "sent"
            /\ Len(recorded') = Len(recorded) + Len(all_urls)
            /\ (\A k \in 1..Len(recorded') : ~recorded'[k].written) => store' = store]_vars

\* A run without a collection ended as sent although the collection of an
\* earlier run names every URL it processed; it wrote nothing.
C11_Witness ==
    /\ pc = "finally"
    /\ outcome = "sent"
    /\ collection = "None"
    /\ \A k \in 1..Len(all_urls) : HasEntry(store, all_urls[k])
    /\ Len(recorded) = Len(articles_data) + Len(all_urls)
    /\ \A k \in 1..Len(recorded) : ~recorded[k].written

\* C12: a call of get_article_urls that fails (the request failed on the
\* last attempt, or anything else raised) returns the empty list and main
\* goes on: after every call, however it ended, main appends what it
\* returned to all_urls, keeping what was there, and moves to the next page;
\* the loop is left only after page 4, so every run calls it for the pages
\* 1, 2, 3, 4 in order before it extracts or ends.
C12_FailedPageKeepsRun ==
    /\ []((pc = "page_done" /\ listing.result \in {"request_failed", "error"}) =>
            article_urls = <<>>)
    /\ [](pc = "page_done" => page_number \in 1..4)
    /\ [](pc \notin {"discover", "page_done", "done"} => page_number = 4 + 1)
    /\ [][pc = "page_done" =>
            /\ pc' = "discover"
            /\ page_number' = page_number + 1
            /\ all_urls' = all_urls \o article_urls]_vars
    /\ [][pc = "discover" => page_number' = page_number]_vars
    /\ [][(pc = "discover" /\ pc' \notin {"discover", "page_done"}) =>
            page_number = 4 + 1]_vars

\* The fetch of page 2 failed on all three attempts while all_urls holds
\* the URLs of page 1.
C12_Witness ==
    /\ pc = "page_done"
    /\ page_number = 2
    /\ listing.result = "request_failed"
    /\ attempt = 2
    /\ Len(all_urls) = 2

\* extract_content is in its for loop.
InExtraction == pc \in {"extract", "translate", "translated", "iter_end"}

\* The URL a record was made from: its English title starts with it.
RecordUrl(rec) == rec[1][1]

RecordUrls == [k \in 1..Len(articles_data) |-> RecordUrl(articles_data[k])]

RECURSIVE IsSubseq(_, _)
\* a is b with some elements left out.
IsSubseq(a, b) ==
    IF a = <<>> THEN TRUE
    ELSE IF b = <<>> THEN FALSE
    ELSE IF Head(a) = Head(b) THEN IsSubseq(Tail(a), Tail(b))
    ELSE IsSubseq(a, Tail(b))

\* C13: extract_content works on all_urls[index] with index going up from 1,
\* the records so far are made from a subsequence of the URLs already gone
\* through, in their order, and however an iteration ends the loop goes on:
\* extract_content returns only after the last URL, with at most one record
\* per URL.
C13_BatchSkipsOnlyFailures ==
    /\ InExtraction =>
         /\ index \in 1..Len(all_urls)
         /\ Len(articles_data) <= index
    /\ pc = "extract" => IsSubseq(RecordUrls, SubSeq(all_urls, 1, index - 1))
    /\ pc = "iter_end" =>
         /\ IsSubseq(RecordUrls, SubSeq(all_urls, 1, index))
         /\ step # "processed" => Len(articles_data) <= index - 1
    /\ (pc = "translate" /\ tr.log = <<>>) =>
         /\ original_title = clean_text(RawTitle(all_urls[index]))
         /\ original_paragraph = clean_text(RawParagraph(all_urls[index]))
    /\ (AfterExtraction /\ all_urls # <<>>) =>
         /\ index = Len(all_urls) + 1
         /\ IsSubseq(RecordUrls, all_urls)
         /\ Len(articles_data) <= Len(all_urls)

\* The first two URLs were skipped and the third, another article than the
\* first, gave the only record.
C13_Witness ==
    /\ pc = "iter_end"
    /\ index = 3
    /\ step = "processed"
    /\ Len(articles_data) = 1
    /\ RecordUrl(articles_data[1]) = all_urls[3]
    /\ all_urls[1] # all_urls[3]

\* A text in which every whitespace character is a single space between two
\* other characters.
Normal(t) ==
    /\ \A k \in 1..Len(t) : t[k] \in Whitespace => t[k] = " "
    /\ t # <<>> => (t[1] \notin Whitespace /\ t[Len(t)] \notin Whitespace)
    /\ \A k \in 1..(Len(t) - 1) : ~(t[k] \in Whitespace /\ t[k + 1] \in Whitespace)

RECURSIVE Words(_, _)
\* The words of t, the maximal runs without whitespace, after the word cur
\* that is being read.
Words(t, cur) ==
    IF t = <<>> THEN (IF cur = <<>> THEN <<>> ELSE <<cur>>)
    ELSE IF Head(t) \in Whitespace
         THEN (IF cur = <<>> THEN <<>> ELSE <<cur>>) \o Words(Tail(t), <<>>)
         ELSE Words(Tail(t), Append(cur, Head(t)))

\* C14: clean_text returns the words of its argument with one space between
\* two of them and nothing at the ends, returns such a text unchanged, and
\* so returns for its own result that result.
C14_CleanTextIdempotent ==
    /\ Len(cleaned) >= 1 =>
         /\ Normal(cleaned[1])
         /\ Words(cleaned[1], <<>>) = Words(raw, <<>>)
         /\ Normal(raw) => cleaned[1] = raw
    /\ Len(cleaned) = 2 => cleaned[2] = cleaned[1]

\* A text with a newline in front and a tab and a space between two letters
\* was cleaned twice, to the two letters with one space between them.
C14_Witness ==
    /\ raw = <<"\n", "a", "\t", " ", "a">>
    /\ cleaned = << <<"a", " ", "a">>, <<"a", " ", "a">> >>

\* C15 as claimed: extract_content sleeps after every URL, so a run that
\* went through all_urls slept once per URL.
C15_Claimed ==
    (AfterExtraction /\ all_urls # <<>>) => paced.articles = Len(all_urls)

\* C15 as amended: main sleeps 1 second after every listing page, whatever
\* get_article_urls returned, so 4 seconds before extraction starts;
\* extract_content sleeps 1 second after each record it appended and not
\* after an iteration that skipped its URL, so it has slept as many seconds
\* as it has records.
C15_PacingAfterPagesAndRecords ==
    /\ pc \in {"discover", "page_done"} => paced.pages = page_number - 1
    /\ (InExtraction \/ AfterExtraction) => paced.pages = 4
    /\ paced.articles = Len(articles_data)
    /\ (pc = "iter_end" /\ step # "processed") => paced.articles < index

\* Extraction is over after 3 URLs of which one gave a record: 4 seconds of
\* sleep for the pages, 1 for the articles.
C15_Witness ==
    /\ pc = "threshold"
    /\ Len(all_urls) = 3
    /\ Len(articles_data) = 1
    /\ paced = [pages |-> 4, articles |-> 1]

\* The fetches and sleeps of n failed attempts that were each followed by
\* another attempt.
FailedFetches(n) ==
    [k \in 1..(2 * n) |-> IF k % 2 = 1 THEN [op |-> "get", secs |-> 0]
                                       ELSE [op |-> "sleep", secs |-> 3]]

\* The calls of self.requests.get among the entries of log.
Fetches(log) == Len(SelectSeq(log, LAMBDA e : e.op = "get"))

\* C16: a call of get_article_urls fetches the page at most 3 times; each
\* failed fetch but the third is followed by a sleep of 3 seconds and
\* another fetch, the first fetch that succeeds ends the call with URLs
\* collected from that fetch, and the call returns the empty list for
\* failed requests only when the third fetch failed, with no sleep after it.
C16_DiscoverAttempts ==
    /\ pc = "discover" =>
         /\ attempt \in 0..2
         /\ dlog = FailedFetches(attempt)
    /\ pc = "page_done" =>
         /\ attempt \in 0..2
         /\ dlog = FailedFetches(attempt) \o <<[op |-> "get", secs |-> 0]>>
         /\ Fetches(dlog) = attempt + 1
         /\ Fetches(dlog) <= 3
         /\ listing.result = "request_failed" =>
              /\ Fetches(dlog) = 3
              /\ article_urls = <<>>
         /\ listing.result = "parsed" => IsSubseq(article_urls, listing.urls)

\* Two fetches of a page failed, the third succeeded and gave a URL.
C16_Witness ==
    /\ pc = "page_done"
    /\ listing.result = "parsed"
    /\ attempt = 2
    /\ Len(dlog) = 5
    /\ article_urls # <<>>

\* C17: no step, the end of a run and the start of the next included, takes
\* an entry out of the collection; with the collection there and no lookup
\* raising, get_article_urls returns no URL that has a scraped entry,
\* whichever run wrote it and however that run ended; and main adds to
\* all_urls, the only URLs extract_content fetches and translates, nothing
\* but what get_article_urls returned.
C17_ScrapedNeverAgain ==
    /\ [][store \subseteq store']_vars
    /\ []((pc = "page_done" /\ listing.result = "parsed" /\ StoreAvailable) =>
            \A k \in 1..Len(article_urls) :
                Document(article_urls[k], "scraped") \notin store)
    /\ [][(pc = "page_done" /\ listing.result = "parsed" /\ StoreAvailable) =>
            \A k \in (Len(all_urls) + 1)..Len(all_urls') :
                Document(all_urls'[k], "scraped") \notin store']_vars
    /\ [][(all_urls' # all_urls /\ pc # "finally") => pc = "page_done"]_vars
    /\ []((pc = "translate" /\ tr.log = <<>>) =>
            /\ index \in 1..Len(all_urls)
            /\ tr.text \in {clean_text(RawTitle(all_urls[index])),
                            clean_text(RawParagraph(all_urls[index]))})

\* An earlier run left a scraped entry for u1 and no sent entry; the page
\* lists u1 and u2, and only u2 is returned.
C17_Witness ==
    /\ pc = "page_done"
    /\ listing.result = "parsed"
    /\ StoreAvailable
    /\ store = {Document("u1", "scraped")}
    /\ listing.urls = <<"u1", "u2">>
    /\ article_urls = <<"u2">>

\* The calls log_url_to_mongodb(collection, url, status="scraped") of the run.
ScrapedCalls == CallsWith(recorded, "scraped")

\* C18: at every point of a run the calls of log_url_to_mongodb with status
\* scraped are, in order, one for the URL of each record of articles_data
\* and no other, so an iteration that appends no record makes no call and
\* the call for a record is made before the next URL is taken up; until the
\* loop over all_urls no other call is made; and the entry of a call whose
\* insert did not raise is in the collection.
C18_ScrapedWithRecord ==
    /\ ~SentLogged =>
         /\ Len(recorded) = Len(articles_data)
         /\ \A k \in 1..Len(recorded) :
              /\ recorded[k].status = "scraped"
              /\ recorded[k].url = RecordUrl(articles_data[k])
              /\ recorded[k].written =>
                    Document(RecordUrl(articles_data[k]), "scraped") \in store
    /\ SentLogged => UrlsOf(ScrapedCalls) = RecordUrls
    /\ (pc = "iter_end" /\ step = "processed") =>
         /\ recorded # <<>>
         /\ recorded[Len(recorded)].url = all_urls[index]
         /\ recorded[Len(recorded)].status = "scraped"
    /\ (pc = "iter_end" /\ step # "processed") => Len(recorded) < index

\* The first URL was skipped and has no entry; the second, another article,
\* gave a record and the only entry written.
C18_Witness ==
    /\ pc = "iter_end"
    /\ step = "processed"
    /\ index = 2
    /\ all_urls[1] # all_urls[2]
    /\ store = {Document(all_urls[2], "scraped")}
    /\ recorded = <<[url |-> all_urls[2], status |-> "scraped", written |-> TRUE]>>
    /\ Len(articles_data) = 1

\* C19: after each call of get_article_urls main appends all it returned to
\* the end of all_urls, a URL that is already there included; extract_content
\* goes through every position of all_urls, and each iteration whose two
\* translations succeeded appends its own record, whatever records are there
\* already; the threshold counts the records, equal ones too.
C19_WorkingSetKeepsDuplicates ==
    /\ [][pc = "page_done" =>
            /\ Len(all_urls') = Len(all_urls) + Len(article_urls)
            /\ SubSeq(all_urls', 1, Len(all_urls)) = all_urls
            /\ SubSeq(all_urls', Len(all_urls) + 1, Len(all_urls')) = article_urls]_vars
    /\ [][(pc = "translated" /\ tr.which = "para" /\ tr.ok) =>
            /\ Len(articles_data') = Len(articles_data) + 1
            /\ RecordUrl(articles_data'[Len(articles_data')]) = all_urls[index]]_vars
    /\ [][pc = "iter_end" =>
            IF index < Len(all_urls)
            THEN pc' = "extract" /\ index' = index + 1
            ELSE pc' = "threshold"]_vars
    /\ [][pc = "threshold" => (pc' = "insert" <=> Len(articles_data) >= 3)]_vars

\* The same URL came back from two listing pages and stands three times in
\* all_urls; each extraction gave a record and the three equal records made
\* the digest that was sent.
C19_Witness ==
    /\ pc = "finally"
    /\ outcome = "sent"
    /\ all_urls = <<"u1", "u1", "u1">>
    /\ Len(articles_data) = 3
    /\ articles_data[1] = articles_data[2]
    /\ articles_data[2] = articles_data[3]
    /\ Len(inserted[1].body) = 3

\* C20: from a page that was fetched and parsed get_article_urls collects
\* the href of every heading that has an anchor, in the order of the
\* headings, and passes over a heading without one; what it returns is taken
\* from these; a page without headings is parsed like any other and gives
\* the empty list.
C20_AnchoredHeadingsCollected ==
    (pc = "page_done" /\ listing.result = "parsed") =>
        /\ listing.urls = SelectSeq(listing.articles, LAMBDA h : h # "h1")
        /\ \A k \in 1..Len(listing.urls) : listing.urls[k] \in URLS
        /\ IsSubseq(article_urls, listing.urls)
        /\ collection = "None" => article_urls = listing.urls
        /\ listing.articles = <<>> => (listing.urls = <<>> /\ article_urls = <<>>)

\* A heading without an anchor stands before one with an anchor: the link
\* of the second is collected and returned.
C20_Witness ==
    /\ pc = "page_done"
    /\ listing.result = "parsed"
    /\ listing.articles = <<"h1", "u2">>
    /\ listing.urls = <<"u2">>
    /\ article_urls = <<"u2">>

\* What a run does at most: 4 calls of get_article_urls with 3 fetches
\* each, one iteration per URL of all_urls with a title call and then a
\* paragraph call of safe_translate, each of at most 3 passes of at most 3
\* provider calls, one call of insert_news and one notification.
RunBounds ==
    /\ page_number \in 1..5
    /\ pc \in {"discover", "page_done"} =>
         /\ attempt \in 0..2
         /\ Fetches(dlog) <= 3
         /\ (pc = "page_done") => page_number <= 4
    /\ InExtraction =>
         /\ index \in 1..Len(all_urls)
         /\ Len(articles_data) <= index
    /\ pc \in {"translate", "translated"} =>
         /\ tr.which \in {"title", "para"}
         /\ tr.which = "para" <=> gujarati_title # <<>>
         /\ tr.attempt \in 0..3
         /\ Len(SelectSeq(tr.log, LAMBDA e : e # "sleep")) <= 9
         /\ Len(SelectSeq(tr.log, LAMBDA e : e # "sleep"))
               <= 3 * tr.attempt + (IF tr.provider = 0 THEN 0 ELSE tr.provider)
    /\ Len(inserted) <= 1
    /\ Len(notified) <= 1
    /\ Len(notified) <= Len(inserted)

\* C21: whatever the calls of a run answer, the run stays within RunBounds
\* and, going on as long as its calls return or raise, reaches the end of
\* main, where the connection is closed and the script ends.
C21_RunTerminates ==
    /\ []RunBounds
    /\ [](pc # "done" => <>(pc = "done"))

\* The last translation a run can make is under way at its last provider
\* call: the paragraph of the fourth URL, third pass, third provider.
C21_Witness ==
    /\ pc = "translate"
    /\ index = 4
    /\ Len(all_urls) = 4
    /\ tr.which = "para"
    /\ tr.attempt = 2
    /\ tr.provider = 3
    /\ Len(tr.log) = 10

\* The branches main can end in: no new URLs, too few records, insert_news
\* failed, the notification failed, all done, an exception.
ExitPaths == {"no_urls", "insufficient", "insert_failed", "not_notified", "sent", "error"}

\* C22: the connection is open as long as main runs and closed once it is
\* over; it is closed by the finally block and by nothing else, whichever
\* branch main ended in, and that step writes no entry; once it is closed
\* no row is inserted, no notification sent and no entry logged.
C22_ConnectionClosedLast ==
    /\ [](connection = "closed" <=> pc = "done")
    /\ [](pc \in {"finally", "done"} => outcome \in ExitPaths)
    /\ [][pc = "finally" =>
            /\ connection' = "closed"
            /\ pc' = "done"
            /\ store' = store]_vars
    /\ [][connection' # connection =>
            \/ pc = "finally" /\ connection' = "closed"
            \/ pc = "done" /\ connection' = "open"]_vars
    /\ [][connection = "closed" =>
            /\ store' = store
            /\ tbl_news' = tbl_news
            /\ inserted' = inserted
            /\ notified' = notified
            /\ recorded' = recorded]_vars

\* insert_news raised, the exception was caught by main, and the connection
\* is closed.
C22_Witness ==
    /\ pc = "done"
    /\ outcome = "error"
    /\ connection = "closed"
    /\ store # {}

====
